---------------------------- MODULE Spec2Model ----------------------------
(***************************************************************************)
(* Model of gobertura: convert() (cmd/gobertura/gobertura.go) and the      *)
(* attribution and aggregation pass Coverage.ParseProfiles                 *)
(* (cobertura/cobertura.go).                                               *)
(*                                                                         *)
(* Strings are sequences of one-character strings, so that TrimPrefix,     *)
(* filepath.Split, TrimRight, TrimLeft and TrimSpace are computed as the   *)
(* library computes them.  A float32 quotient float32(h)/float32(n) is the *)
(* fraction h/n in lowest terms, and <<0, 0>> is the NaN of 0/0.           *)
(* Pointers are indices: v.pkg is an index into cov.Packages and a *Class  *)
(* is an index into pkg.Classes.  ast.Walk is the walk over the FuncDecls  *)
(* of the file, the only nodes for which Visit does anything.              *)
(*                                                                         *)
(* Spec runs convert() on any list of profiles of a small source tree;     *)
(* SpecMethod runs it on one declaration with any span and any sorted list *)
(* of blocks.                                                              *)
(***************************************************************************)
EXTENDS Integers, Sequences, FiniteSets, TLC

\* ------------------------------------------------------------------ bounds
MaxLine == 3
MaxCol == 2
MaxCount == 1
MaxBlocks == 3
MaxProfiles == 3
MaxDecls == 2
MaxTotalBlocks == 2

VARIABLES
    profiles,   \* the []*cover.Profile handed to ParseProfiles
    fs,         \* the source tree: file name -> the FuncDecls the parser finds
    cov,        \* the Coverage struct
    err,        \* the error ParseProfiles returned ("" is nil)
    output,     \* the report convert() encoded, <<>> while none is written
    pc,         \* position in convert / ParseProfiles / Visit / method
    pi,         \* index of ParseProfiles' range loop
    di,         \* index of the declaration ast.Walk is visiting
    bi,         \* index of method()'s range loop over profile.Blocks
    i,          \* method()'s inner loop variable
    v,          \* the fileVisitor
    class,      \* Visit's local class (index into v.pkg's Classes)
    method      \* the Method that method() is building

vars == <<profiles, fs, cov, err, output, pc, pi, di, bi, i, v, class, method>>

\* ------------------------------------------------------------------ strings
Sep == "/"
Dash == <<"-">>
NoRecv == <<>>
PackagePath == <<"m", "/">>

TrimPrefix(s, prefix) ==
    IF Len(s) >= Len(prefix) /\ SubSeq(s, 1, Len(prefix)) = prefix
    THEN SubSeq(s, Len(prefix) + 1, Len(s))
    ELSE s

RECURSIVE TrimRight(_, _)
TrimRight(s, cutset) ==
    IF Len(s) > 0 /\ s[Len(s)] \in cutset
    THEN TrimRight(SubSeq(s, 1, Len(s) - 1), cutset)
    ELSE s

RECURSIVE TrimLeft(_, _)
TrimLeft(s, cutset) ==
    IF Len(s) > 0 /\ s[1] \in cutset
    THEN TrimLeft(SubSeq(s, 2, Len(s)), cutset)
    ELSE s

TrimSpace(s) == TrimLeft(TrimRight(s, {" "}), {" "})

LastSep(path) ==
    LET at == {k \in 1..Len(path) : path[k] = Sep}
    IN  IF at = {} THEN 0 ELSE CHOOSE k \in at : \A j \in at : j <= k

SplitDir(path) == SubSeq(path, 1, LastSep(path))

PkgPath(fileName) == TrimRight(SplitDir(fileName), {Sep})

\* ------------------------------------------------------------------ rates
RECURSIVE GCD(_, _)
GCD(a, b) == IF b = 0 THEN a ELSE GCD(b, a % b)

NaN == <<0, 0>>

Quotient(h, n) == IF n = 0 THEN NaN ELSE <<h \div GCD(h, n), n \div GCD(h, n)>>

\* ------------------------------------------------------------------ Lines
NumLines(lines) == Len(lines)

NumLinesWithHits(lines) == Cardinality({k \in 1..Len(lines) : lines[k].Hits > 0})

HitRate(lines) == Quotient(NumLinesWithHits(lines), Len(lines))

\* AddOrUpdateLine with the comparison of line 98 turned round.
AddOrUpdateLineRaising(lines, lineNumber, hits) ==
    IF Len(lines) > 0 /\ lineNumber = lines[Len(lines)].Number
    THEN IF hits > lines[Len(lines)].Hits
         THEN [lines EXCEPT ![Len(lines)].Hits = hits]
         ELSE lines
    ELSE Append(lines, [Number |-> lineNumber, Hits |-> hits])

AddOrUpdateLine(lines, lineNumber, hits) ==
    IF Len(lines) > 0 /\ lineNumber = lines[Len(lines)].Number
    THEN IF hits < lines[Len(lines)].Hits
         THEN [lines EXCEPT ![Len(lines)].Hits = hits]
         ELSE lines
    ELSE Append(lines, [Number |-> lineNumber, Hits |-> hits])


\* Lines of a Class, Package and Coverage are summed over their children
\* (Method.NumLines, Class.NumLines, Package.NumLines, Coverage.NumLines).
RECURSIVE Sum(_)
Sum(seq) == IF seq = <<>> THEN 0 ELSE Head(seq) + Sum(Tail(seq))

MethodNumLines(m) == NumLines(m.Lines)
MethodNumLinesWithHits(m) == NumLinesWithHits(m.Lines)

ClassNumLines(c) == Sum([k \in 1..Len(c.Methods) |-> MethodNumLines(c.Methods[k])])
ClassNumLinesWithHits(c) == Sum([k \in 1..Len(c.Methods) |-> MethodNumLinesWithHits(c.Methods[k])])

PackageNumLines(p) == Sum([k \in 1..Len(p.Classes) |-> ClassNumLines(p.Classes[k])])
PackageNumLinesWithHits(p) == Sum([k \in 1..Len(p.Classes) |-> ClassNumLinesWithHits(p.Classes[k])])
PackageHitRate(p) == Quotient(PackageNumLinesWithHits(p), PackageNumLines(p))

\* NumLines with the covered lines added into the same total.
CoverageNumLinesAndHits(c) ==
    Sum([k \in 1..Len(c.Packages) |->
            PackageNumLines(c.Packages[k]) + PackageNumLinesWithHits(c.Packages[k])])

CoverageNumLines(c) == Sum([k \in 1..Len(c.Packages) |-> PackageNumLines(c.Packages[k])])
CoverageNumLinesWithHits(c) == Sum([k \in 1..Len(c.Packages) |-> PackageNumLinesWithHits(c.Packages[k])])
CoverageHitRate(c) == Quotient(CoverageNumLinesWithHits(c), CoverageNumLines(c))

\* ------------------------------------------------------------------ method()
\* The test of line 279 with > for >= on the column.
PastEndColumnStrict(b, n) ==
    b.StartLine > n.endLine \/ (b.StartLine = n.endLine /\ b.StartCol > n.endCol)

\* The test of line 279 without the column.
PastEndLineOnly(b, n) == b.StartLine >= n.endLine

\* "Past the end of the function": the first test of method()'s loop.
PastEnd(b, n) ==
    b.StartLine > n.endLine \/ (b.StartLine = n.endLine /\ b.StartCol >= n.endCol)

\* "Before the beginning of the function": the second test.
BeforeStart(b, n) ==
    b.EndLine < n.startLine \/ (b.EndLine = n.startLine /\ b.EndCol <= n.startCol)

\* recvName without the TrimLeft of line 313.
recvNameWithStar(n) ==
    IF n.Recv = NoRecv THEN Dash ELSE TrimSpace(n.Recv)

recvName(n) ==
    IF n.Recv = NoRecv THEN Dash ELSE TrimSpace(TrimLeft(n.Recv, {"*"}))

\* ------------------------------------------------------------------ inputs
Less(l1, c1, l2, c2) == l1 < l2 \/ (l1 = l2 /\ c1 < c2)

\* cover.ParseProfiles sorts every profile's blocks by StartLine, then StartCol.
SortedByStart(bl) ==
    \A k \in 1..(Len(bl) - 1) :
        ~Less(bl[k + 1].StartLine, bl[k + 1].StartCol, bl[k].StartLine, bl[k].StartCol)

\* A block of the cover tool is a stretch of source: it starts before it ends.
Blocks ==
    {b \in [StartLine : 1..MaxLine, StartCol : 1..MaxCol,
            EndLine : 1..MaxLine, EndCol : 1..MaxCol, Count : 0..MaxCount] :
        Less(b.StartLine, b.StartCol, b.EndLine, b.EndCol)}

BlockLists ==
    UNION {{bl \in [1..k -> Blocks] : SortedByStart(bl)} : k \in 0..MaxBlocks}

\* A declaration's span: n.Pos() is strictly before n.End().
Spans ==
    {s \in [startLine : 1..MaxLine, startCol : 1..MaxCol,
            endLine : 1..MaxLine, endCol : 1..MaxCol] :
        Less(s.startLine, s.startCol, s.endLine, s.endCol)}

FuncDecl(name, recv, s) ==
    [Name |-> name, Recv |-> recv, startLine |-> s.startLine, startCol |-> s.startCol,
     endLine |-> s.endLine, endCol |-> s.endCol]

ProfileFileNames ==
    {<<"m", "/", "a", "/", "x">>, <<"m", "/", "a", "/", "y">>, <<"b", "/", "x">>}

Files == {TrimPrefix(f, PackagePath) : f \in ProfileFileNames}

\* Receiver type expressions as they stand in the source text.
Recvs == {NoRecv, <<"T">>, <<"*", "T">>}

\* The k-th declaration of a file of the tree fills line k.
LineSpan(k) == [startLine |-> k, startCol |-> 1, endLine |-> k, endCol |-> MaxCol]

DeclLists ==
    UNION {{[k \in 1..n |-> FuncDecl(k, rs[k], LineSpan(k))] : rs \in [1..n -> Recvs]} :
           n \in 0..MaxDecls}

\* Blocks that fill one line of the tree's files.
LineBlocks ==
    {b \in Blocks : b.StartLine = b.EndLine /\ b.StartCol = 1 /\ b.EndCol = MaxCol
                    /\ b.StartLine <= MaxDecls}

LineBlockLists ==
    {bl \in BlockLists : \A k \in 1..Len(bl) :
        /\ bl[k] \in LineBlocks
        /\ k > 1 => bl[k - 1].StartLine < bl[k].StartLine}

Profiles(names, lists) == [FileName : names, Blocks : lists]

ProfileLists(names, lists, n) ==
    UNION {[1..k -> Profiles(names, lists)] : k \in 0..n}

\* ------------------------------------------------------------------ state
Zero == <<0, 1>>
NoVisitor == [fileName |-> <<>>, pkg |-> 0, classes |-> <<>>]
NoMethod == [Name |-> 0, LineRate |-> Zero, Lines |-> <<>>]

\* convert() builds the Coverage with Packages nil and every number zero.
NewCoverage ==
    [Packages |-> <<>>, LinesValid |-> 0, LinesCovered |-> 0, LineRate |-> Zero]

InitRest ==
    /\ cov = NewCoverage
    /\ err = ""
    /\ output = <<>>
    /\ pc = "convert"
    /\ pi = 0 /\ di = 0 /\ bi = 0 /\ i = 0
    /\ v = NoVisitor
    /\ class = 0
    /\ method = NoMethod

TotalBlocks(pl) == Sum([k \in 1..Len(pl) |-> Len(pl[k].Blocks)])

\* Any list of profiles, with at most MaxTotalBlocks blocks in all, over a
\* source tree whose files all hold the same declarations, each on a line of
\* its own.
Init ==
    /\ profiles \in {pl \in ProfileLists(ProfileFileNames, LineBlockLists, MaxProfiles) :
                        TotalBlocks(pl) <= MaxTotalBlocks}
    /\ \E dl \in DeclLists : fs = [f \in Files |-> dl]
    /\ InitRest

\* One profile of one file that holds one declaration, with any span and
\* any sorted list of blocks.
InitMethod ==
    /\ \E bl \in BlockLists :
           profiles = <<[FileName |-> <<"m", "/", "a", "/", "x">>, Blocks |-> bl]>>
    /\ \E s \in Spans : fs = [f \in {<<"a", "/", "x">>} |-> <<FuncDecl(1, NoRecv, s)>>]
    /\ InitRest

\* ------------------------------------------------------------------ actions
Profile == profiles[pi]
Parsed == fs[v.fileName]
Decl == Parsed[di]
Block == Profile.Blocks[bi]

\* ParseProfiles, line 190: cov.Packages = []*Package{}
ParseProfilesStart ==
    /\ pc = "convert"
    /\ cov' = [cov EXCEPT !.Packages = <<>>]
    /\ pi' = 1
    /\ pc' = "range"
    /\ UNCHANGED <<profiles, fs, err, output, di, bi, i, v, class, method>>

\* parseProfile creating the package of the file before it parses the file.
ParseProfileFailAfterPackage ==
    /\ pc = "range"
    /\ pi <= Len(profiles)
    /\ \E e \in {"ParseFile", "ReadFile"} : err' = e
    /\ cov' = [cov EXCEPT !.Packages =
                  Append(@, [Name |-> PkgPath(TrimPrefix(Profile.FileName, PackagePath)),
                             LineRate |-> Zero, Classes |-> <<>>])]
    /\ pc' = "failed"
    /\ UNCHANGED <<profiles, fs, output, pi, di, bi, i, v, class, method>>

\* parseProfile, lines 208-215: parser.ParseFile or ioutil.ReadFile fails, and
\* ParseProfiles returns the error (lines 193-195).
ParseProfileFail ==
    /\ pc = "range"
    /\ pi <= Len(profiles)
    /\ \E e \in {"ParseFile", "ReadFile"} : err' = e
    /\ pc' = "failed"
    /\ UNCHANGED <<profiles, fs, cov, output, pi, di, bi, i, v, class, method>>

\* A lookup that compares the name of the newest package only.
FindPackageNewestOnly(packages, pkgPath) ==
    IF Len(packages) > 0 /\ packages[Len(packages)].Name = pkgPath
    THEN Len(packages)
    ELSE 0

\* parseProfile, lines 220-225: the loop leaves pkg at the last package of that
\* name, or nil (0).
FindPackage(packages, pkgPath) ==
    LET found == {k \in 1..Len(packages) : packages[k].Name = pkgPath}
    IN  IF found = {} THEN 0 ELSE CHOOSE k \in found : \A j \in found : j <= k

\* parseProfile, lines 205-237: the file parses; look the package up or create it,
\* and build the visitor.
ParseProfile ==
    /\ pc = "range"
    /\ pi <= Len(profiles)
    /\ LET fileName == TrimPrefix(Profile.FileName, PackagePath)
           pkgPath == PkgPath(fileName)
           pkg == FindPackage(cov.Packages, pkgPath)
       IN  /\ fileName \in DOMAIN fs
           /\ IF pkg = 0
              THEN /\ cov' = [cov EXCEPT !.Packages =
                                 Append(@, [Name |-> pkgPath, LineRate |-> Zero,
                                            Classes |-> <<>>])]
                   /\ v' = [fileName |-> fileName, pkg |-> Len(cov.Packages) + 1,
                            classes |-> <<>>]
              ELSE /\ cov' = cov
                   /\ v' = [fileName |-> fileName, pkg |-> pkg, classes |-> <<>>]
    /\ di' = 1
    /\ pc' = "walk"
    /\ UNCHANGED <<profiles, fs, err, output, pi, bi, i, class, method>>

\* Visit, line 255, and method(), lines 268-269: class := v.class(n), and
\* method() starts with an empty ledger.
VisitFuncDecl ==
    /\ pc = "walk"
    /\ di <= Len(Parsed)
    /\ LET className == recvName(Decl)
           n == Len(cov.Packages[v.pkg].Classes) + 1
       IN  IF className \in DOMAIN v.classes
           THEN /\ class' = v.classes[className]
                /\ UNCHANGED <<cov, v>>
           ELSE /\ cov' = [cov EXCEPT !.Packages[v.pkg].Classes =
                              Append(@, [Name |-> className, Filename |-> v.fileName,
                                         LineRate |-> Zero, Methods |-> <<>>,
                                         Lines |-> <<>>])]
                /\ v' = [v EXCEPT !.classes = (className :> n) @@ @]
                /\ class' = n
    /\ method' = [Name |-> Decl.Name, LineRate |-> Zero, Lines |-> <<>>]
    /\ bi' = 1
    /\ pc' = "blocks"
    /\ UNCHANGED <<profiles, fs, err, output, pi, di, i>>

\* method(), lines 279-282: the block is past the end of the function.
MethodBreak ==
    /\ pc = "blocks"
    /\ bi <= Len(Profile.Blocks)
    /\ PastEnd(Block, Decl)
    /\ pc' = "visit"
    /\ UNCHANGED <<profiles, fs, cov, err, output, pi, di, bi, i, v, class, method>>

\* method(), lines 283-286: the block is before the beginning of the function.
MethodContinue ==
    /\ pc = "blocks"
    /\ bi <= Len(Profile.Blocks)
    /\ ~PastEnd(Block, Decl)
    /\ BeforeStart(Block, Decl)
    /\ bi' = bi + 1
    /\ UNCHANGED <<profiles, fs, cov, err, output, pc, pi, di, i, v, class, method>>

\* method(), line 287: i := b.StartLine
MethodLines ==
    /\ pc = "blocks"
    /\ bi <= Len(Profile.Blocks)
    /\ ~PastEnd(Block, Decl)
    /\ ~BeforeStart(Block, Decl)
    /\ i' = Block.StartLine
    /\ pc' = "lines"
    /\ UNCHANGED <<profiles, fs, cov, err, output, pi, di, bi, v, class, method>>

\* method(), lines 287-289: one turn of the inner loop.
MethodAddLine ==
    /\ pc = "lines"
    /\ i <= Block.EndLine
    /\ method' = [method EXCEPT !.Lines = AddOrUpdateLine(@, i, Block.Count)]
    /\ i' = i + 1
    /\ UNCHANGED <<profiles, fs, cov, err, output, pc, pi, di, bi, v, class>>

\* method(), line 287: i > b.EndLine, on to the next block.
MethodNextBlock ==
    /\ pc = "lines"
    /\ i > Block.EndLine
    /\ bi' = bi + 1
    /\ i' = 0
    /\ pc' = "blocks"
    /\ UNCHANGED <<profiles, fs, cov, err, output, pi, di, v, class, method>>

\* method(), lines 278 and 291: the blocks are exhausted.
MethodReturn ==
    /\ pc = "blocks"
    /\ bi > Len(Profile.Blocks)
    /\ pc' = "visit"
    /\ UNCHANGED <<profiles, fs, cov, err, output, pi, di, bi, i, v, class, method>>

\* Visit, lines 257-262.
VisitAppend ==
    /\ pc = "visit"
    /\ LET m == [method EXCEPT !.LineRate = HitRate(method.Lines)]
           lines == cov.Packages[v.pkg].Classes[class].Lines \o m.Lines
       IN  cov' = [cov EXCEPT !.Packages[v.pkg].Classes[class] =
                       [@ EXCEPT !.Methods = Append(@, m),
                                 !.Lines = lines,
                                 !.LineRate = HitRate(lines)]]
    /\ di' = di + 1
    /\ bi' = 0
    /\ class' = 0
    /\ method' = NoMethod
    /\ pc' = "walk"
    /\ UNCHANGED <<profiles, fs, err, output, pi, i, v>>

\* parseProfile, lines 238-240: ast.Walk is over; pkg.LineRate = pkg.HitRate().
ParseProfileReturn ==
    /\ pc = "walk"
    /\ di > Len(Parsed)
    /\ cov' = [cov EXCEPT !.Packages[v.pkg].LineRate = PackageHitRate(cov.Packages[v.pkg])]
    /\ pi' = pi + 1
    /\ di' = 0
    /\ v' = NoVisitor
    /\ pc' = "range"
    /\ UNCHANGED <<profiles, fs, err, output, bi, i, class, method>>

\* ParseProfiles, lines 198-201.
ParseProfilesReturn ==
    /\ pc = "range"
    /\ pi > Len(profiles)
    /\ cov' = [cov EXCEPT !.LinesValid = CoverageNumLines(cov),
                          !.LinesCovered = CoverageNumLinesWithHits(cov),
                          !.LineRate = CoverageHitRate(cov)]
    /\ pc' = "returned"
    /\ UNCHANGED <<profiles, fs, err, output, pi, di, bi, i, v, class, method>>

\* convert, lines 69-71: panic(err); nothing is written.
ConvertPanic ==
    /\ pc = "failed"
    /\ pc' = "panicked"
    /\ UNCHANGED <<profiles, fs, cov, err, output, pi, di, bi, i, v, class, method>>

\* convert, lines 73-88: the Coverage is encoded to the output file.
ConvertEncode ==
    /\ pc = "returned"
    /\ output' = <<cov>>
    /\ pc' = "written"
    /\ UNCHANGED <<profiles, fs, cov, err, pi, di, bi, i, v, class, method>>

Next ==
    \/ ParseProfilesStart
    \/ ParseProfileFail
    \/ ParseProfile
    \/ VisitFuncDecl
    \/ MethodBreak
    \/ MethodContinue
    \/ MethodLines
    \/ MethodAddLine
    \/ MethodNextBlock
    \/ MethodReturn
    \/ VisitAppend
    \/ ParseProfileReturn
    \/ ParseProfilesReturn
    \/ ConvertPanic
    \/ ConvertEncode

Spec == Init /\ [][Next]_vars

SpecMethod == InitMethod /\ [][Next]_vars


\* ------------------------------------------------------------------ claims
\* Positions compared as (line, column) pairs.
StartsBefore(b, n) == Less(b.StartLine, b.StartCol, n.endLine, n.endCol)
EndsAfter(b, n) == Less(n.startLine, n.startCol, b.EndLine, b.EndCol)
Overlaps(b, n) == StartsBefore(b, n) /\ EndsAfter(b, n)
EndsAtStart(b, n) == b.EndLine = n.startLine /\ b.EndCol = n.startCol
StartsAtEnd(b, n) == b.StartLine = n.endLine /\ b.StartCol = n.endCol

InMethod == pc \in {"blocks", "lines", "visit"}
MethodDone == pc = "visit"

StrictlyIncreasing(lines) ==
    \A k \in 1..(Len(lines) - 1) : lines[k].Number < lines[k + 1].Number

\* C1: once method() has scanned the blocks of a declaration, the line numbers
\* of its ledger are strictly increasing.
C1_LedgerStrictlyIncreasing == MethodDone => StrictlyIncreasing(method.Lines)

\* The lines covered by a block that overlaps the declaration, in ascending
\* order, each with the least count of the overlapping blocks that cover it.
CoveredLines(n, bl) ==
    {l \in 1..MaxLine : \E k \in 1..Len(bl) :
        Overlaps(bl[k], n) /\ bl[k].StartLine <= l /\ l <= bl[k].EndLine}

LeastCount(n, bl, l) ==
    LET counts == {bl[k].Count : k \in {j \in 1..Len(bl) :
                      Overlaps(bl[j], n) /\ bl[j].StartLine <= l /\ l <= bl[j].EndLine}}
    IN  CHOOSE c \in counts : \A d \in counts : c <= d

MinMergedLedger(n, bl) ==
    LET covered == CoveredLines(n, bl)
        nth(j) == CHOOSE l \in covered : Cardinality({m \in covered : m < l}) = j - 1
    IN  [j \in 1..Cardinality(covered) |->
            [Number |-> nth(j), Hits |-> LeastCount(n, bl, nth(j))]]

\* C2: the ledger method() returns holds exactly one entry per line covered by
\* an overlapping block, with the minimum of the counts of those blocks.
C2_LedgerIsMinMerge == MethodDone => method.Lines = MinMergedLedger(Decl, Profile.Blocks)

\* C3: while method() attributes a block equal to the block before it, the
\* ledger does not change: attributing twice is attributing once.
C3_SecondAttributionIsNoOp ==
    [][(pc = "lines" /\ bi > 1 /\ Block = Profile.Blocks[bi - 1])
          => method'.Lines = method.Lines]_vars

\* C4: method() enters its inner loop only for a block that starts strictly
\* before the declaration's end and ends strictly after its start, so a block
\* ending at the declaration's start or starting at its end adds no line; and
\* every ledger entry is a line of such a block among those scanned.
C4_OnlyOverlappingBlocksAttributed ==
    InMethod =>
        /\ pc = "lines" =>
              /\ Overlaps(Block, Decl)
              /\ ~EndsAtStart(Block, Decl)
              /\ ~StartsAtEnd(Block, Decl)
        /\ \A e \in 1..Len(method.Lines) :
              \E k \in 1..Len(Profile.Blocks) :
                  /\ k <= bi
                  /\ Overlaps(Profile.Blocks[k], Decl)
                  /\ Profile.Blocks[k].StartLine <= method.Lines[e].Number
                  /\ method.Lines[e].Number <= Profile.Blocks[k].EndLine

\* A block ending at the declaration's start was skipped and a block starting
\* at its end stopped the scan, and the ledger is empty.
C4_Witness ==
    /\ MethodDone
    /\ bi = 2
    /\ Len(Profile.Blocks) >= 2
    /\ EndsAtStart(Profile.Blocks[1], Decl)
    /\ StartsAtEnd(Profile.Blocks[2], Decl)
    /\ method.Lines = <<>>

Min(a, b) == IF a < b THEN a ELSE b

\* C9: a call of AddOrUpdateLine with the line of the last entry keeps the
\* length and every other entry and lowers that entry's hits to the minimum;
\* any other call appends (line, hits) and changes no entry.
C9_AddOrUpdateLine ==
    [][(pc = "lines" /\ i <= Block.EndLine) =>
          LET old == method.Lines
              new == method'.Lines
              n == Len(old)
          IN  IF n > 0 /\ old[n].Number = i
              THEN /\ Len(new) = n
                   /\ \A k \in 1..(n - 1) : new[k] = old[k]
                   /\ new[n].Number = i
                   /\ new[n].Hits = Min(old[n].Hits, Block.Count)
              ELSE /\ Len(new) = n + 1
                   /\ \A k \in 1..n : new[k] = old[k]
                   /\ new[n + 1] = [Number |-> i, Hits |-> Block.Count]]_vars

\* The second block wrote the line of the first with a lower count, and the
\* one entry of the ledger now holds the lower count.
C9_Witness ==
    /\ pc = "lines"
    /\ bi = 2
    /\ i > Block.StartLine
    /\ Overlaps(Profile.Blocks[1], Decl)
    /\ Profile.Blocks[1].Count > Block.Count
    /\ Len(method.Lines) = 1
    /\ method.Lines[1].Hits = Block.Count

\* The ledger obtained by testing every block of the list for overlap.
RECURSIVE AttributeFrom(_, _, _)
AttributeFrom(lines, b, l) ==
    IF l > b.EndLine THEN lines
    ELSE AttributeFrom(AddOrUpdateLine(lines, l, b.Count), b, l + 1)

RECURSIVE FullScan(_, _, _, _)
FullScan(lines, n, bl, k) ==
    IF k > Len(bl) THEN lines
    ELSE FullScan(IF Overlaps(bl[k], n)
                  THEN AttributeFrom(lines, bl[k], bl[k].StartLine)
                  ELSE lines,
                  n, bl, k + 1)

\* C10: the ledger method() returns, stopping at the first block at or past the
\* declaration's end, is the ledger of a scan that tests every block.
C10_BreakLosesNothing ==
    MethodDone => method.Lines = FullScan(<<>>, Decl, Profile.Blocks, 1)

\* The scan attributed a block, then stopped at a block past the end with a
\* further block left unscanned.
C10_Witness ==
    /\ MethodDone
    /\ bi = 2
    /\ Len(Profile.Blocks) = 3
    /\ PastEnd(Block, Decl)
    /\ method.Lines # <<>>


\* ------------------------------------------------------------------ the tree
RECURSIVE Concat(_)
Concat(seqs) == IF seqs = <<>> THEN <<>> ELSE Head(seqs) \o Concat(Tail(seqs))

Range(seq) == {seq[k] : k \in 1..Len(seq)}

MethodLedgers(c) == Concat([k \in 1..Len(c.Methods) |-> c.Methods[k].Lines])
ClassLedgers(p) == Concat([k \in 1..Len(p.Classes) |-> MethodLedgers(p.Classes[k])])
PackageLedgers(c) == Concat([k \in 1..Len(c.Packages) |-> ClassLedgers(c.Packages[k])])

Covered(lines) == Cardinality({k \in 1..Len(lines) : lines[k].Hits > 0})
Ratio(lines) == Quotient(Covered(lines), Len(lines))

Returned == pc \in {"returned", "written"}
Failed == pc \in {"failed", "panicked"}

\* C5: once ParseProfiles has returned nil, every rate stored during the pass
\* is the rate recomputed bottom-up from the ledgers of the final tree, and
\* LinesValid and LinesCovered are the two sums over the packages.
C5_RollupEquivalence ==
    Returned =>
        /\ \A p \in Range(cov.Packages) :
              /\ p.LineRate = Ratio(ClassLedgers(p))
              /\ \A c \in Range(p.Classes) :
                    /\ c.Lines = MethodLedgers(c)
                    /\ c.LineRate = Ratio(MethodLedgers(c))
                    /\ \A m \in Range(c.Methods) : m.LineRate = Ratio(m.Lines)
        /\ cov.LinesValid =
              Sum([k \in 1..Len(cov.Packages) |-> Len(ClassLedgers(cov.Packages[k]))])
        /\ cov.LinesCovered =
              Sum([k \in 1..Len(cov.Packages) |-> Covered(ClassLedgers(cov.Packages[k]))])
        /\ cov.LinesCovered <= cov.LinesValid
        /\ cov.LineRate = Ratio(PackageLedgers(cov))

\* A package of two classes, one of them with two methods of which one line
\* is covered and one is not.
C5_Witness ==
    /\ Returned
    /\ \E p \in Range(cov.Packages) :
          /\ Len(p.Classes) >= 2
          /\ \E c \in Range(p.Classes) : Len(c.Methods) = 2 /\ c.LineRate = <<1, 2>>
    /\ cov.LinesValid = 2
    /\ cov.LinesCovered = 1

FileOf(k) == TrimPrefix(profiles[k].FileName, PackagePath)
FilesBefore(k) == {FileOf(j) : j \in 1..(k - 1)}

\* ParseProfiles stopped at the failing profile pi with the error, convert()
\* wrote nothing, and nothing in the Coverage comes from profile pi or later.
FailureStops ==
    /\ err # ""
    /\ pi \in 1..Len(profiles)
    /\ v = NoVisitor
    /\ output = <<>>
    /\ \A p \in Range(cov.Packages) :
          /\ p.Name \in {PkgPath(f) : f \in FilesBefore(pi)}
          /\ \A c \in Range(p.Classes) : c.Filename \in FilesBefore(pi)

NoTotals ==
    /\ cov.LinesValid = NewCoverage.LinesValid
    /\ cov.LinesCovered = NewCoverage.LinesCovered
    /\ cov.LineRate = NewCoverage.LineRate

\* C6 as claimed: after a failure the Coverage holds no Packages, Classes or
\* totals built from the profiles before the failing one.
C6_NoPartialCoverage == Failed => FailureStops /\ NoTotals /\ cov.Packages = <<>>

\* C6 as amended: after a failure ParseProfiles has returned the error at once,
\* no later profile is processed, no total is set and convert() writes no
\* report; the Packages built before the failing profile stay in the Coverage.
C6_FailureStopsThePass == Failed => FailureStops /\ NoTotals

\* convert() panicked on the error of the second or a later profile, with the
\* package and a class of an earlier profile in the Coverage.
C6_Witness ==
    /\ pc = "panicked"
    /\ pi > 1
    /\ \E p \in Range(cov.Packages) : p.Classes # <<>>

\* The profiles whose package parseProfile has looked up so far.
Started ==
    IF pc \in {"walk", "blocks", "lines", "visit"} THEN pi
    ELSE IF pi = 0 THEN 0 ELSE pi - 1

RECURSIVE FirstSeen(_)
FirstSeen(seq) ==
    IF seq = <<>> THEN <<>>
    ELSE LET front == FirstSeen(SubSeq(seq, 1, Len(seq) - 1))
         IN  IF seq[Len(seq)] \in Range(front) THEN front
             ELSE Append(front, seq[Len(seq)])

\* C7: package names are pairwise distinct and stand in the order in which
\* their directories were first met; a class lies in the package of its
\* file's directory, where every file that declares a function has a class.
C7_OnePackagePerDirectory ==
    /\ \A j, k \in 1..Len(cov.Packages) :
          j # k => cov.Packages[j].Name # cov.Packages[k].Name
    /\ [k \in 1..Len(cov.Packages) |-> cov.Packages[k].Name]
          = FirstSeen([k \in 1..Started |-> PkgPath(FileOf(k))])
    /\ \A p \in Range(cov.Packages) :
          \A c \in Range(p.Classes) : PkgPath(c.Filename) = p.Name
    /\ Returned =>
          \A k \in 1..Len(profiles) :
              fs[FileOf(k)] # <<>> =>
                  \E p \in Range(cov.Packages) :
                      /\ p.Name = PkgPath(FileOf(k))
                      /\ \E c \in Range(p.Classes) : c.Filename = FileOf(k)

\* Two files of one directory with a file of another directory between them:
\* two packages, the first holding the classes of both its files.
C7_Witness ==
    /\ Returned
    /\ Len(profiles) = 3
    /\ PkgPath(FileOf(1)) = PkgPath(FileOf(3))
    /\ PkgPath(FileOf(1)) # PkgPath(FileOf(2))
    /\ FileOf(1) # FileOf(3)
    /\ Len(cov.Packages) = 2
    /\ {c.Filename : c \in Range(cov.Packages[1].Classes)} = {FileOf(1), FileOf(3)}

\* The receiver's type name: the receiver text without "*" and blanks.
IsNameChar(ch) == ch \notin {"*", " "}
Owner(n) == IF n.Recv = NoRecv THEN Dash ELSE SelectSeq(n.Recv, IsNameChar)

DeclaredBy(decl, owner) == Owner(decl) = owner
NamesOf(decls, owner) ==
    LET Mine(n) == DeclaredBy(n, owner)
        mine == SelectSeq(decls, Mine)
    IN  [k \in 1..Len(mine) |-> mine[k].Name]

ClassAt(at) == cov.Packages[at[1]].Classes[at[2]]

ClassesOf(owner, file) ==
    {at \in UNION {{<<p, c>> : c \in 1..Len(cov.Packages[p].Classes)} :
                      p \in 1..Len(cov.Packages)} :
        ClassAt(at).Name = owner /\ ClassAt(at).Filename = file}

NoTwinClasses ==
    \A p \in Range(cov.Packages) :
        \A j, k \in 1..Len(p.Classes) :
            j # k => ~(/\ p.Classes[j].Name = p.Classes[k].Name
                       /\ p.Classes[j].Filename = p.Classes[k].Filename)

\* Each owner of a file has one class, with the file's declarations of that
\* owner as its methods, in order.
OneClassPerOwner ==
    \A k \in 1..Len(profiles) :
        \A owner \in {Owner(n) : n \in Range(fs[FileOf(k)])} :
            /\ Cardinality(ClassesOf(owner, FileOf(k))) = 1
            /\ \A at \in ClassesOf(owner, FileOf(k)) :
                  [m \in 1..Len(ClassAt(at).Methods) |-> ClassAt(at).Methods[m].Name]
                  = NamesOf(fs[FileOf(k)], owner)

DistinctFiles ==
    \A j, k \in 1..Len(profiles) : j # k => FileOf(j) # FileOf(k)

\* C8 as claimed, for any list of profiles: no package holds two classes of
\* one name and one file, and the declarations of a file that share a
\* receiver type are the methods of one class.
C8_OneClassPerOwnerAndFile == NoTwinClasses /\ (Returned => OneClassPerOwner)

\* C8 as amended: the same, for a list of profiles whose file names, with
\* the package path trimmed, are pairwise distinct.
C8_OneClassPerOwnerOfDistinctFiles ==
    DistinctFiles => NoTwinClasses /\ (Returned => OneClassPerOwner)

\* Two distinct files in one package, each with one class T that holds the
\* methods of the receivers T and *T.
C8_Witness ==
    /\ Returned
    /\ DistinctFiles
    /\ \E p \in Range(cov.Packages) :
          /\ Len(p.Classes) = 2
          /\ \A c \in Range(p.Classes) : c.Name = <<"T">> /\ Len(c.Methods) = 2

=============================================================================
